---- MODULE Spec2Model ----
(***************************************************************************)
(* A model of main.py: the incremental mirror of a device's files over     *)
(* adb.  One invocation of main() is a "run"; the progress snapshot        *)
(* (progress.json) and the local mirror tree outlive a run, everything     *)
(* else is reset by the next invocation.                                   *)
(*                                                                         *)
(* The device, the adb subprocesses and the local file system are the      *)
(* environment: every outcome the code distinguishes (return code,         *)
(* timeout, exception, a size that is not a number, a failing os.remove or *)
(* open) is an input of the action that models the call.  Outcomes other   *)
(* than the plain success draw on a budget of faults, which bounds the     *)
(* model.  A KeyboardInterrupt is modelled where main() handles it: inside *)
(* the try block of lines 230-268, at every step of it, also in the middle *)
(* of a pull and of a save.                                                *)
(***************************************************************************)
EXTENDS Integers, Sequences, FiniteSets, TLC

\* ------------------------------------------------------------------ bounds
\* Files on the device in the short and in the long configuration, file
\* sizes, runs (invocations of main) and environment faults per behaviour.
MaxFiles == 2
LongFiles == 11
MaxSize == 2
MaxRuns == 2
MaxFaults == 1
LongFaults == 1
MirroredFaults == 2
RetryFiles == 1
RetryFaults == 3

\* -------------------------------------------------------- program constants
\* main(): "if processed_files % 10 == 0 and processed_files > 0"
CHECK_INTERVAL == 10
LOCAL_BACKUP_DIR == "android_backup"

VARIABLES
    \* ---- the environment, which outlives a run
    remote,             \* device: remote path -> size of the file
    localfs,            \* local mirror: local path -> [exists, size]
    disk,               \* progress.json: [kind: missing | malformed | ok, map]
    budget,             \* faults the environment may still inject
    run,                \* number of the current invocation of main()
    \* ---- main()'s locals
    pc,                 \* position in main()
    android_files,      \* the enumerated sequence of remote paths
    progress,           \* the in-memory progress mapping
    idx,                \* position of the for loop in android_files
    processed_files,
    successful_files,
    skipped_files,
    failed_files,
    \* ---- history of the current run (what happened, for the properties)
    hist,
    \* ---- what is kept of the history of the run before this one
    prev

vars == <<remote, localfs, disk, budget, run, pc, android_files, progress, idx,
          processed_files, successful_files, skipped_files, failed_files,
          hist, prev>>

envVars == <<remote, localfs, disk, budget, run>>
counters == <<processed_files, successful_files, skipped_files, failed_files>>

\* ------------------------------------------------------------------- values
\* Remote paths are 1..n: the order of the numbers is the order `sort` gives.
Paths == DOMAIN remote
NoFile == [exists |-> FALSE, size |-> 0]
File(s) == [exists |-> TRUE, size |-> s]
EmptyMap == <<>>
Missing == [kind |-> "missing", map |-> EmptyMap]
Malformed == [kind |-> "malformed", map |-> EmptyMap]
Snapshot(m) == [kind |-> "ok", map |-> m]

\* rel_path = android_path.lstrip('/'); os.path.join(LOCAL_BACKUP_DIR, rel_path)
LocalPathOf(android_path) == <<LOCAL_BACKUP_DIR, android_path>>

\* The size a freshly created device file i has.
InitialSize(i) == 1 + (i % MaxSize)

\* get_file_size_on_device's result: an int, or None
SizeOf(s) == [known |-> TRUE, size |-> s]
None == [known |-> FALSE, size |-> 0]

\* ------------------------------------------------------- the pure functions

RECURSIVE SortedSeq(_)
\* `find ... -type f | sort`: the paths in increasing order
SortedSeq(S) ==
    IF S = {} THEN <<>>
    ELSE LET m == CHOOSE x \in S : \A y \in S : x <= y
         IN  <<m>> \o SortedSeq(S \ {m})

\* get_all_files_from_device(): the sorted listing, or [] when the listing
\* command fails, times out or raises.
get_all_files_from_device(listing_ok) ==
    IF listing_ok THEN SortedSeq(Paths) ELSE <<>>

\* load_progress(): {} when the file is missing, cannot be parsed or cannot be
\* read; the stored mapping otherwise.
load_progress(d, read_ok) ==
    IF d.kind = "missing" THEN EmptyMap
    ELSE IF ~read_ok THEN EmptyMap
    ELSE IF d.kind = "malformed" THEN EmptyMap
    ELSE d.map

\* A variant that never gets a size (the digits test always fails).
get_file_size_on_device_none(file_path, stat_ok) == None

\* get_file_size_on_device(): the size when the stat command returns 0 and
\* prints digits; None on a non-zero code, other output, timeout, exception.
get_file_size_on_device(file_path, stat_ok) ==
    IF stat_ok THEN SizeOf(remote[file_path]) ELSE None

\* Variants of file_needs_backup with one slip each: the comparison inverted;
\* the os.remove left out; the progress record not consulted; the sizes not
\* compared.
file_needs_backup_inverted(android_path, local_path, prog, fs, device_size, remove_ok) ==
    IF android_path \in DOMAIN prog /\ fs[local_path].exists
    THEN IF ~(device_size.known /\ fs[local_path].size = device_size.size)
         THEN [needs |-> FALSE, fs |-> fs, removed |-> FALSE]
         ELSE [needs |-> TRUE, fs |-> [fs EXCEPT ![local_path] = NoFile],
               removed |-> TRUE]
    ELSE [needs |-> TRUE, fs |-> fs, removed |-> FALSE]

file_needs_backup_keeps(android_path, local_path, prog, fs, device_size, remove_ok) ==
    IF /\ android_path \in DOMAIN prog /\ fs[local_path].exists
       /\ device_size.known /\ fs[local_path].size = device_size.size
    THEN [needs |-> FALSE, fs |-> fs, removed |-> FALSE]
    ELSE [needs |-> TRUE, fs |-> fs, removed |-> FALSE]

file_needs_backup_norecord(android_path, local_path, prog, fs, device_size, remove_ok) ==
    IF fs[local_path].exists
    THEN IF device_size.known /\ fs[local_path].size = device_size.size
         THEN [needs |-> FALSE, fs |-> fs, removed |-> FALSE]
         ELSE IF remove_ok
              THEN [needs |-> TRUE, fs |-> [fs EXCEPT ![local_path] = NoFile],
                    removed |-> TRUE]
              ELSE [needs |-> TRUE, fs |-> fs, removed |-> FALSE]
    ELSE [needs |-> TRUE, fs |-> fs, removed |-> FALSE]

file_needs_backup_nosize(android_path, local_path, prog, fs, device_size, remove_ok) ==
    IF android_path \in DOMAIN prog /\ fs[local_path].exists
    THEN [needs |-> FALSE, fs |-> fs, removed |-> FALSE]
    ELSE [needs |-> TRUE, fs |-> fs, removed |-> FALSE]

\* A variant that deletes only on a size it knows to differ.
file_needs_backup_unknown_kept(android_path, local_path, prog, fs, device_size, remove_ok) ==
    IF android_path \in DOMAIN prog /\ fs[local_path].exists
    THEN IF device_size.known /\ fs[local_path].size = device_size.size
         THEN [needs |-> FALSE, fs |-> fs, removed |-> FALSE]
         ELSE IF remove_ok /\ device_size.known
              THEN [needs |-> TRUE, fs |-> [fs EXCEPT ![local_path] = NoFile],
                    removed |-> TRUE]
              ELSE [needs |-> TRUE, fs |-> fs, removed |-> FALSE]
    ELSE [needs |-> TRUE, fs |-> fs, removed |-> FALSE]

\* file_needs_backup(): the decision, with the local file system it leaves.
\* device_size is what get_file_size_on_device returns, remove_ok whether
\* os.remove succeeds (it raises otherwise, and the except clause logs).
file_needs_backup(android_path, local_path, prog, fs, device_size, remove_ok) ==
    IF android_path \in DOMAIN prog /\ fs[local_path].exists
    THEN LET local_size == fs[local_path].size
         IN  IF device_size.known /\ local_size = device_size.size
             THEN [needs |-> FALSE, fs |-> fs, removed |-> FALSE]
             ELSE IF remove_ok
                  THEN [needs |-> TRUE,
                        fs |-> [fs EXCEPT ![local_path] = NoFile],
                        removed |-> TRUE]
                  ELSE [needs |-> TRUE, fs |-> fs, removed |-> FALSE]
    ELSE [needs |-> TRUE, fs |-> fs, removed |-> FALSE]

\* What one `adb pull` subprocess can do, as pull_file sees it:
\*   rc "zero" | "nonzero": the return code; "timeout": TimeoutExpired;
\*   "exception": any other exception of subprocess.run (adb not found, ...);
\*   file: the local file as the subprocess leaves it;
\*   remove_ok: whether the os.remove of the timeout clean-up succeeds.
\* The first outcome is the transfer that works; the others are faults.
GoodPull(android_path) ==
    [rc |-> "zero", file |-> File(remote[android_path]), remove_ok |-> TRUE]
LeftBehind(android_path, local_path, fs) ==
    {fs[local_path]} \cup {File(s) : s \in 0 .. (remote[android_path] - 1)}
FaultyPulls(android_path, local_path, fs) ==
    {[rc |-> "zero", file |-> fs[local_path], remove_ok |-> TRUE]}
    \cup {[rc |-> "nonzero", file |-> f, remove_ok |-> TRUE] :
             f \in LeftBehind(android_path, local_path, fs)}
    \cup {[rc |-> "timeout", file |-> f, remove_ok |-> ok] :
             f \in LeftBehind(android_path, local_path, fs), ok \in BOOLEAN}
    \cup {[rc |-> "exception", file |-> fs[local_path], remove_ok |-> TRUE]}

\* Variants of pull_file: the timeout handler without its clean-up; the
\* return code trusted without the os.path.exists check.
pull_file_no_cleanup(android_path, local_path, fs, out) ==
    LET fs1 == [fs EXCEPT ![local_path] = out.file]
    IN  IF out.rc = "zero" /\ fs1[local_path].exists
        THEN [success |-> TRUE, fs |-> fs1]
        ELSE [success |-> FALSE, fs |-> fs1]

pull_file_trusts_rc(android_path, local_path, fs, out) ==
    LET fs1 == [fs EXCEPT ![local_path] = out.file]
    IN  CASE out.rc = "zero" -> [success |-> TRUE, fs |-> fs1]
          [] out.rc = "timeout" ->
                 IF fs1[local_path].exists /\ out.remove_ok
                 THEN [success |-> FALSE,
                       fs |-> [fs1 EXCEPT ![local_path] = NoFile]]
                 ELSE [success |-> FALSE, fs |-> fs1]
          [] OTHER -> [success |-> FALSE, fs |-> fs1]

\* A variant that cleans up after every failed pull, not only a timeout.
pull_file_cleans_failures(android_path, local_path, fs, out) ==
    LET fs1 == [fs EXCEPT ![local_path] = out.file]
    IN  IF out.rc = "zero" /\ fs1[local_path].exists
        THEN [success |-> TRUE, fs |-> fs1]
        ELSE IF out.remove_ok
             THEN [success |-> FALSE,
                   fs |-> [fs1 EXCEPT ![local_path] = NoFile]]
             ELSE [success |-> FALSE, fs |-> fs1]

\* pull_file(): success or failure, with the local file system it leaves.
pull_file(android_path, local_path, fs, out) ==
    LET fs1 == [fs EXCEPT ![local_path] = out.file]
    IN  CASE out.rc = "zero" ->
                 IF fs1[local_path].exists
                 THEN [success |-> TRUE, fs |-> fs1]
                 ELSE [success |-> FALSE, fs |-> fs1]
          [] out.rc = "nonzero" -> [success |-> FALSE, fs |-> fs1]
          [] out.rc = "timeout" ->
                 IF fs1[local_path].exists /\ out.remove_ok
                 THEN [success |-> FALSE,
                       fs |-> [fs1 EXCEPT ![local_path] = NoFile]]
                 ELSE [success |-> FALSE, fs |-> fs1]
          [] OTHER -> [success |-> FALSE, fs |-> fs1]

\* progress[android_path] = {"completed": True, "timestamp": time.time(),
\*                           "local_path": local_path}
ProgressRecord(now, local_path) ==
    [completed |-> TRUE, timestamp |-> now, local_path |-> local_path]
SetRecord(prog, android_path, rec) ==
    [p \in (DOMAIN prog) \cup {android_path} |->
        IF p = android_path THEN rec ELSE prog[p]]

\* A variant without the `processed_files > 0` test.
CheckDueAtStart(processed) ==
    processed % CHECK_INTERVAL = 0

\* The periodic connection check of the loop is due.
CheckDue(processed) ==
    processed % CHECK_INTERVAL = 0 /\ processed > 0

\* ------------------------------------------------------------------ history
\* What the current run has done so far.  The program never reads it.
FreshHist ==
    [loaded |-> "no",        \* how load_progress went: missing | malformed |
                             \*   unreadable | ok
     loadedMap |-> EmptyMap, \* the mapping load_progress returned
     decided |-> {},         \* paths file_needs_backup was called for
     hadRecord |-> {},       \* ... that had a record in progress at that call
     existed |-> {},         \* ... whose local file existed at that call
     mismatch |-> {},        \* ... whose local file existed with a size other
                             \*     than the device's at that call
     statNone |-> {},        \* ... whose size query returned None
     removed |-> {},         \* ... whose local file the decision deleted
     removeFailed |-> {},    \* ... whose os.remove in the decision raised
     skipped |-> {},         \* paths decided "no backup needed"
     attempted |-> {},       \* paths pull_file was called for
     succeeded |-> {},       \* paths whose pull_file returned True
     failedPull |-> {},      \* paths whose pull_file returned False
     timedOut |-> {},        \* paths whose pull ended by TimeoutExpired
     cleanupFailed |-> {},   \* ... and whose partial file os.remove left
     lastRc |-> "none",      \* how the last adb pull subprocess ended
     recorded |-> {},        \* paths whose record was set in progress
     saveFailed |-> {},      \* paths whose save_progress failed
     faults |-> {},          \* kinds of faults the environment injected
     checks |-> {},          \* values of processed_files at the loop's checks
     remoteChanged |-> FALSE,\* a device file changed since the run before
     ended |-> "no"]         \* nodevice | nofiles | connlost | interrupt |
                             \*   complete

\* What the next run keeps of a run's history.
Kept(h) ==
    [ended |-> h.ended, failedPull |-> h.failedPull, faults |-> h.faults,
     remoteChanged |-> h.remoteChanged]

\* ------------------------------------------------------------ initial state
LocalPaths(n) == {LocalPathOf(p) : p \in 1 .. n}

\* The state main() starts in.  The first `backed` files of the device were
\* mirrored and recorded by an earlier run (timestamp 0) that was interrupted
\* after them; the others have never been pulled.
Mirrored(backed) ==
    [p \in 1 .. backed |-> ProgressRecord(0, LocalPathOf(p))]

InitWith(n, faults, backed) ==
    /\ remote = [p \in 1 .. n |-> InitialSize(p)]
    /\ localfs = [lp \in LocalPaths(n) |->
                     IF lp[2] <= backed THEN File(InitialSize(lp[2]))
                                        ELSE NoFile]
    /\ disk = IF backed = 0 THEN Missing ELSE Snapshot(Mirrored(backed))
    /\ budget = faults
    /\ run = 1
    /\ pc = "start"
    /\ android_files = <<>>
    /\ progress = EmptyMap
    /\ idx = 1
    /\ processed_files = 0
    /\ successful_files = 0
    /\ skipped_files = 0
    /\ failed_files = 0
    /\ hist = FreshHist
    /\ prev = Kept(FreshHist)

\* A device with up to MaxFiles files, an empty mirror, no progress.json.
Init == \E n \in 0 .. MaxFiles : InitWith(n, MaxFaults, 0)

\* A device with enough files for the loop's connection check to come due;
\* all but the last two are in the mirror already.
InitLong == InitWith(LongFiles, LongFaults, LongFiles - 2)

\* A device whose files are all in the mirror, left by a run that went
\* through; the environment may inject two faults on the same file.
InitMirrored == InitWith(MaxFiles, MirroredFaults, MaxFiles)

\* The same with fewer files and more faults, for runs that follow each other.
InitRetry == InitWith(RetryFiles, RetryFaults, RetryFiles)

\* ------------------------------------------------------------------ actions
cur == android_files[idx]
curLocal == LocalPathOf(cur)
Note(field, p) == [hist EXCEPT ![field] = @ \cup {p}]

\* main(), lines 201-204: the start-up connection check.
StartConnected ==
    /\ pc = "start"
    /\ pc' = "list"
    /\ UNCHANGED <<envVars, android_files, progress, idx, counters, hist, prev>>

\* A variant without the `return` after the failed check.
StartNoDeviceGoesOn ==
    /\ pc = "start"
    /\ pc' = "list"
    /\ hist' = [hist EXCEPT !.ended = "nodevice"]
    /\ UNCHANGED <<envVars, android_files, progress, idx, counters, prev>>

StartNoDevice ==
    /\ pc = "start"
    /\ pc' = "exit"
    /\ hist' = [hist EXCEPT !.ended = "nodevice"]
    /\ UNCHANGED <<envVars, android_files, progress, idx, counters, prev>>

\* main(), lines 207-216: the listing, then the directories of the mirror.
ListFiles ==
    /\ pc = "list"
    /\ \E listing_ok \in BOOLEAN :
         LET files == get_all_files_from_device(listing_ok)
         IN  /\ android_files' = files
             /\ IF files = <<>>
                THEN /\ pc' = "exit"
                     /\ hist' = [hist EXCEPT !.ended = "nofiles"]
                ELSE /\ pc' = "load"
                     /\ hist' = hist
    /\ UNCHANGED <<envVars, progress, idx, counters, prev>>

\* main(), line 219: progress = load_progress()
LoadProgress ==
    /\ pc = "load"
    /\ \E read_ok \in BOOLEAN :
         /\ (~read_ok) => (disk.kind = "ok" /\ budget > 0)
         /\ budget' = IF read_ok THEN budget ELSE budget - 1
         /\ progress' = load_progress(disk, read_ok)
         /\ hist' = [hist EXCEPT
                !.loaded = IF disk.kind = "ok" /\ ~read_ok
                           THEN "unreadable" ELSE disk.kind,
                !.loadedMap = load_progress(disk, read_ok),
                !.faults = IF read_ok THEN @ ELSE @ \cup {"read"}]
    /\ pc' = "loop"
    /\ idx' = 1
    /\ processed_files' = 0
    /\ successful_files' = 0
    /\ skipped_files' = 0
    /\ failed_files' = 0
    /\ UNCHANGED <<remote, localfs, disk, run, android_files, prev>>

\* The for loop, lines 231-240: the next file, after the connection check
\* when one is due (check_adb_connection answers alive or not); a failed
\* check breaks out of the loop.
LoopHead ==
    /\ pc = "loop"
    /\ idx <= Len(android_files)
    /\ IF CheckDue(processed_files)
       THEN \E alive \in BOOLEAN :
              /\ pc' = IF alive THEN "decide" ELSE "summary"
              /\ hist' = [Note("checks", processed_files) EXCEPT
                            !.ended = IF alive THEN @ ELSE "connlost"]
       ELSE /\ pc' = "decide"
            /\ hist' = hist
    /\ UNCHANGED <<envVars, android_files, progress, idx, counters, prev>>

\* The for loop is exhausted.
LoopEnd ==
    /\ pc = "loop"
    /\ idx > Len(android_files)
    /\ pc' = "summary"
    /\ hist' = [hist EXCEPT !.ended = "complete"]
    /\ UNCHANGED <<envVars, android_files, progress, idx, counters, prev>>

\* Lines 243-248: the decision; a file that needs no backup is counted as
\* skipped and the loop goes on.  The size query and the os.remove happen only
\* on the paths of file_needs_backup that reach them; each one failing is a
\* fault.
Decide ==
    /\ pc = "decide"
    /\ LET consulted == cur \in DOMAIN progress /\ localfs[curLocal].exists
       IN
       \E stat_ok \in BOOLEAN, remove_ok \in BOOLEAN :
         LET device_size == get_file_size_on_device(cur, stat_ok)
             removing == consulted /\ ~(device_size.known
                             /\ localfs[curLocal].size = device_size.size)
             cost == (IF stat_ok THEN 0 ELSE 1) + (IF remove_ok THEN 0 ELSE 1)
             d == file_needs_backup(cur, curLocal, progress, localfs,
                                    device_size, remove_ok)
         IN  /\ ~consulted => stat_ok
             /\ ~removing => remove_ok
             /\ cost <= budget
             /\ budget' = budget - cost
             /\ localfs' = d.fs
             /\ hist' = [hist EXCEPT
                    !.decided = @ \cup {cur},
                    !.hadRecord = IF cur \in DOMAIN progress
                                  THEN @ \cup {cur} ELSE @,
                    !.existed = IF localfs[curLocal].exists
                                THEN @ \cup {cur} ELSE @,
                    !.mismatch = IF localfs[curLocal].exists
                                    /\ localfs[curLocal].size # remote[cur]
                                 THEN @ \cup {cur} ELSE @,
                    !.statNone = IF consulted /\ ~stat_ok
                                 THEN @ \cup {cur} ELSE @,
                    !.removed = IF d.removed THEN @ \cup {cur} ELSE @,
                    !.removeFailed = IF remove_ok THEN @ ELSE @ \cup {cur},
                    !.faults = @ \cup (IF stat_ok THEN {} ELSE {"stat"})
                                 \cup (IF remove_ok THEN {} ELSE {"remove"}),
                    !.skipped = IF d.needs THEN @ ELSE @ \cup {cur}]
             /\ IF d.needs
                THEN /\ pc' = "pull"
                     /\ UNCHANGED <<idx, counters>>
                ELSE /\ pc' = "loop"
                     /\ idx' = idx + 1
                     /\ processed_files' = processed_files + 1
                     /\ skipped_files' = skipped_files + 1
                     /\ UNCHANGED <<successful_files, failed_files>>
    /\ UNCHANGED <<remote, disk, run, android_files, progress, prev>>

\* A variant that records whatever pull_file returned.
AfterPullAlways(success) == "record"

\* A variant that tries a failed pull again at once.
AfterPullRetry(success) == IF success THEN "record" ELSE "pull"

\* A variant that counts a success without recording it.
AfterPullNoRecord(success) == IF success THEN "count" ELSE "failed"

\* Lines 253 and 263: `if success:` ... `else:`
AfterPull(success) == IF success THEN "record" ELSE "failed"

\* Line 251: success = pull_file(android_path, local_path)
PullWith(out, cost) ==
    LET r == pull_file(cur, curLocal, localfs, out)
    IN  /\ pc = "pull"
        /\ cost <= budget
        /\ budget' = budget - cost
        /\ localfs' = r.fs
        /\ hist' = [hist EXCEPT
               !.attempted = @ \cup {cur},
               !.succeeded = IF r.success THEN @ \cup {cur} ELSE @,
               !.failedPull = IF r.success THEN @ ELSE @ \cup {cur},
               !.timedOut = IF out.rc = "timeout" THEN @ \cup {cur} ELSE @,
               !.cleanupFailed = IF out.rc = "timeout" /\ out.file.exists
                                    /\ ~out.remove_ok
                                 THEN @ \cup {cur} ELSE @,
               !.lastRc = out.rc,
               !.faults = IF cost = 0 THEN @ ELSE @ \cup {"pull"}]
        /\ pc' = AfterPull(r.success)
        /\ UNCHANGED <<remote, disk, run, android_files, progress, idx,
                       counters, prev>>

Pull ==
    /\ pc = "pull"
    /\ PullWith(GoodPull(cur), 0)

PullFault ==
    /\ pc = "pull"
    /\ \E out \in FaultyPulls(cur, curLocal, localfs) : PullWith(out, 1)

\* Lines 255-259: the record of the pulled path.
Record ==
    /\ pc = "record"
    /\ progress' = SetRecord(progress, cur, ProgressRecord(run, curLocal))
    /\ hist' = Note("recorded", cur)
    /\ pc' = "save"
    /\ UNCHANGED <<envVars, android_files, idx, counters, prev>>

\* Line 260, save_progress(progress), in its two steps: open(.., 'w')
\* truncates the file, json.dump writes the whole mapping.  Either may raise;
\* save_progress logs and returns.
SaveOpen ==
    /\ pc = "save"
    /\ disk' = Malformed
    /\ pc' = "dump"
    /\ UNCHANGED <<remote, localfs, budget, run, android_files, progress, idx,
                   counters, hist, prev>>

SaveOpenFails ==
    /\ pc = "save"
    /\ budget > 0
    /\ budget' = budget - 1
    /\ hist' = [hist EXCEPT !.saveFailed = @ \cup {cur},
                             !.faults = @ \cup {"save"}]
    /\ pc' = "count"
    /\ UNCHANGED <<remote, localfs, disk, run, android_files, progress, idx,
                   counters, prev>>

\* A variant of the dump that writes the new record only.
SaveDumpOnlyNew ==
    /\ pc = "dump"
    /\ disk' = Snapshot([p \in {cur} |-> progress[p]])
    /\ pc' = "count"
    /\ UNCHANGED <<remote, localfs, budget, run, android_files, progress, idx,
                   counters, hist, prev>>

SaveDump ==
    /\ pc = "dump"
    /\ disk' = Snapshot(progress)
    /\ pc' = "count"
    /\ UNCHANGED <<remote, localfs, budget, run, android_files, progress, idx,
                   counters, hist, prev>>

SaveDumpFails ==
    /\ pc = "dump"
    /\ budget > 0
    /\ budget' = budget - 1
    /\ hist' = [hist EXCEPT !.saveFailed = @ \cup {cur},
                             !.faults = @ \cup {"save"}]
    /\ pc' = "count"
    /\ UNCHANGED <<remote, localfs, disk, run, android_files, progress, idx,
                   counters, prev>>

\* Lines 261-262 and 267-268: the success is counted.
CountSuccess ==
    /\ pc = "count"
    /\ successful_files' = successful_files + 1
    /\ processed_files' = processed_files + 1
    /\ idx' = idx + 1
    /\ pc' = "loop"
    /\ UNCHANGED <<envVars, android_files, progress, skipped_files,
                   failed_files, hist, prev>>

\* A variant that goes on to the next file before `processed_files += 1`.
CountFailureNoProcessed ==
    /\ pc = "failed"
    /\ failed_files' = failed_files + 1
    /\ idx' = idx + 1
    /\ pc' = "loop"
    /\ UNCHANGED <<envVars, android_files, progress, processed_files,
                   successful_files, skipped_files, hist, prev>>

\* Lines 264-268: the failure is counted.
CountFailure ==
    /\ pc = "failed"
    /\ failed_files' = failed_files + 1
    /\ processed_files' = processed_files + 1
    /\ idx' = idx + 1
    /\ pc' = "loop"
    /\ UNCHANGED <<envVars, android_files, progress, successful_files,
                   skipped_files, hist, prev>>

\* A variant of the interrupt without the `except KeyboardInterrupt` clause:
\* the process ends where it is.
InterruptUncaught ==
    /\ pc \in {"loop", "decide", "pull", "record", "save", "dump", "count",
               "failed"}
    /\ pc' = "exit"
    /\ hist' = [hist EXCEPT !.ended = "interrupt"]
    /\ UNCHANGED <<envVars, android_files, progress, idx, counters, prev>>

\* Lines 270-272: a KeyboardInterrupt raised anywhere in the try block ends
\* the loop.  Between two statements it changes nothing else.
InLoop == pc \in {"loop", "decide", "pull", "record", "save", "dump", "count",
                  "failed"}

Interrupt ==
    /\ InLoop
    /\ pc' = "summary"
    /\ hist' = [hist EXCEPT !.ended = "interrupt"]
    /\ UNCHANGED <<envVars, android_files, progress, idx, counters, prev>>

\* A KeyboardInterrupt while `adb pull` runs: subprocess.run kills the child
\* and re-raises, pull_file's handlers (TimeoutExpired, Exception) do not
\* catch it, and the local file stays as the child left it.
InterruptPull ==
    /\ pc = "pull"
    /\ \E f \in {File(s) : s \in 0 .. remote[cur]} :
          localfs' = [localfs EXCEPT ![curLocal] = f]
    /\ pc' = "summary"
    /\ hist' = [Note("attempted", cur) EXCEPT !.ended = "interrupt"]
    /\ UNCHANGED <<remote, disk, budget, run, android_files, progress, idx,
                   counters, prev>>

\* Lines 278-284: the final summary.
Summary ==
    /\ pc = "summary"
    /\ pc' = "done"
    /\ UNCHANGED <<envVars, android_files, progress, idx, counters, hist, prev>>

\* The next invocation of main(): a new process, the same disk and device.
NewRun ==
    /\ pc \in {"done", "exit"}
    /\ run < MaxRuns
    /\ run' = run + 1
    /\ pc' = "start"
    /\ android_files' = <<>>
    /\ progress' = EmptyMap
    /\ idx' = 1
    /\ processed_files' = 0
    /\ successful_files' = 0
    /\ skipped_files' = 0
    /\ failed_files' = 0
    /\ prev' = Kept(hist)
    /\ hist' = FreshHist
    /\ UNCHANGED <<remote, localfs, disk, budget>>

\* The device is not ours: a file on it may change size at any time.  The
\* program sees a device file only in the size query and in the pull of that
\* file, so the change is taken right before one of them.
RemoteChange ==
    /\ budget > 0
    /\ pc \in {"decide", "pull"}
    /\ \E s \in (1 .. MaxSize) \ {remote[cur]} :
          remote' = [remote EXCEPT ![cur] = s]
    /\ budget' = budget - 1
    /\ hist' = [hist EXCEPT !.remoteChanged = TRUE]
    /\ UNCHANGED <<localfs, disk, run, pc, android_files, progress, idx,
                   counters, prev>>

\* The steps of the program, and those of its environment.
Step ==
    \/ StartConnected \/ StartNoDevice \/ ListFiles \/ LoadProgress
    \/ LoopHead \/ LoopEnd
    \/ Decide \/ Pull \/ PullFault \/ Record
    \/ SaveOpen \/ SaveOpenFails \/ SaveDump \/ SaveDumpFails
    \/ CountSuccess \/ CountFailure \/ Summary

Env == Interrupt \/ InterruptPull \/ NewRun \/ RemoteChange

Next == Step \/ Env

Spec == Init /\ [][Next]_vars
\* One run over the long listing.
NextLong == Step \/ Interrupt \/ InterruptPull \/ RemoteChange

SpecLong == InitLong /\ [][NextLong]_vars
FairSpecLong == SpecLong /\ WF_vars(Step)

\* One run over a device that is mirrored already.
SpecMirrored == InitMirrored /\ [][NextLong]_vars

\* Runs one after the other over a device that is mirrored already.
SpecRetry == InitRetry /\ [][Next]_vars

\* Every call of the program returns (each subprocess has a timeout), so a
\* run that can take a step takes one.
FairSpec == Spec /\ WF_vars(Step)

\* =============================================================== properties
Files == {android_files[i] : i \in 1 .. Len(android_files)}
\* The files the loop is done with: decided, and pulled if need be, and counted.
Handled == {android_files[i] : i \in 1 .. (idx - 1)}
\* The device has not changed since the run before this one started.
RemoteUnchanged == ~prev.remoteChanged /\ ~hist.remoteChanged

\* ----------------------------------------------------------------------- C1
\* C1 as stated: when the sync runs twice in succession (the first run's loop
\* went over all files) and no remote file changed between or during the
\* runs, the second run makes no pull attempt and skips every file it decides.
C1_AsStated ==
    (run >= 2 /\ prev.ended = "complete" /\ RemoteUnchanged)
        => (hist.attempted = {} /\ hist.decided = hist.skipped)

\* C1, amended: when moreover the first run went without a fault (no failed
\* pull, no failed save, no failed size query, deletion or read), and the
\* second run reads the snapshot and gets an answer to every size query, the
\* second run makes no pull attempt: every file it decides is skipped, through
\* the size-match branch (the path has a record, its local file exists, the
\* sizes are equal), and nothing is deleted.
C1_Idempotent ==
    (run >= 2 /\ prev.ended = "complete" /\ prev.faults = {}
              /\ RemoteUnchanged /\ hist.faults = {})
        => /\ hist.attempted = {}
           /\ hist.decided = hist.skipped
           /\ hist.removed = {}
           /\ hist.skipped \subseteq
                 (hist.hadRecord \cap hist.existed) \ hist.mismatch
           /\ hist.ended = "complete" => hist.skipped = Files

\* The second of two undisturbed runs has skipped all of two or more files.
C1_Witness ==
    /\ run = 2 /\ pc = "done" /\ hist.ended = "complete"
    /\ prev.ended = "complete" /\ prev.faults = {} /\ RemoteUnchanged
    /\ hist.faults = {}
    /\ Len(android_files) >= 2
    /\ hist.skipped = Files
    /\ skipped_files = Len(android_files)

\* ----------------------------------------------------------------------- C2
\* The records the run loaded (N of them) and the files it enumerated (M).
LoadedRecords == (DOMAIN hist.loadedMap) \cap Files
\* Recorded paths the decision did not trust: the local file was missing, or
\* its size differed from the device's, or the size query failed.
Distrusted ==
    {p \in hist.hadRecord :
        p \notin hist.existed \/ p \in hist.mismatch \/ p \in hist.statNone}

\* C2 as stated: after an interrupted run, a fresh invocation that finds N of
\* the M enumerated files recorded makes at most M - N pull attempts.
C2_AsStated ==
    (run >= 2 /\ prev.ended = "interrupt" /\ hist.loaded # "no")
        => Cardinality(hist.attempted)
              <= Cardinality(Files) - Cardinality(LoadedRecords)

\* C2, amended: a fresh invocation that loads N records makes at most M - N
\* pull attempts plus one for every recorded path whose local file is missing,
\* has another size than the device's or whose size query fails; a recorded
\* path whose local file exists with the device's size is never pulled.
C2_Resume ==
    (run >= 2 /\ prev.ended = "interrupt" /\ hist.loaded # "no")
        => /\ Cardinality(hist.attempted)
                 <= Cardinality(Files) - Cardinality(LoadedRecords)
                    + Cardinality(Distrusted)
           /\ hist.attempted \cap LoadedRecords \subseteq Distrusted
           /\ hist.hadRecord = hist.decided \cap LoadedRecords

\* A run after an interrupted one loaded a record, skipped that file and
\* pulled another.
C2_Witness ==
    /\ run = 2 /\ prev.ended = "interrupt" /\ pc = "done"
    /\ hist.ended = "complete"
    /\ LoadedRecords # {}
    /\ hist.skipped # {}
    /\ hist.attempted # {}
    /\ Cardinality(hist.attempted)
          = Cardinality(Files) - Cardinality(LoadedRecords)

\* ----------------------------------------------------------------------- C3
\* C3 as stated: every file whose local copy exists with a size other than the
\* device's when the run reaches it has its local copy deleted, and is pulled
\* before the loop goes on.
C3_AsStated ==
    \A p \in hist.mismatch :
        /\ p \in hist.removed
        /\ p \in Handled => p \in hist.attempted

\* C3, amended: this holds of the files that have a record in the loaded
\* progress, and the local copy is gone unless the deletion fails; then the
\* file is pulled.  A file without a record is pulled over its local copy,
\* which is not deleted first.
C3_Repair ==
    /\ \A p \in hist.mismatch :
          /\ p \in hist.hadRecord =>
                (p \in hist.removed \/ p \in hist.removeFailed)
          /\ p \notin hist.hadRecord => p \notin hist.removed
          /\ p \notin hist.skipped
          /\ p \in Handled => p \in hist.attempted
    /\ (pc = "pull" /\ cur \in hist.removed) => ~localfs[curLocal].exists

\* A recorded file with a local copy of another size has been deleted and
\* pulled again.
C3_Witness ==
    \E p \in hist.mismatch :
        /\ p \in hist.hadRecord /\ p \in hist.removed
        /\ p \in hist.succeeded /\ p \in Handled
        /\ localfs[LocalPathOf(p)] = File(remote[p])

\* ----------------------------------------------------------------------- C4
\* pull_file has just returned for the current file.
PullReturned == pc \in {"record", "failed"}

\* C4 as stated: after a pull that ended by timeout the local file does not
\* exist, and the pull reports failure.
C4_AsStated ==
    (PullReturned /\ cur \in hist.timedOut)
        => (pc = "failed" /\ ~localfs[curLocal].exists)

\* C4, amended: after a pull that ended by timeout the pull reports failure,
\* and the local file does not exist unless its deletion failed (the failure
\* is swallowed and the file stays as the transfer left it).
C4_TimeoutCleanup ==
    (PullReturned /\ cur \in hist.timedOut)
        => /\ pc = "failed"
           /\ cur \notin hist.cleanupFailed => ~localfs[curLocal].exists

\* A pull timed out over a local file that existed before it, and the file is
\* gone.
C4_Witness ==
    /\ pc = "failed" /\ cur \in hist.timedOut
    /\ cur \in hist.existed /\ cur \notin hist.removed
    /\ ~localfs[curLocal].exists

\* ----------------------------------------------------------------------- C5
\* load_progress found no snapshot, or one it could not parse.
LoadedNothing == hist.loaded \in {"missing", "malformed"}

\* C5: when the snapshot is missing or cannot be parsed, load_progress returns
\* the empty mapping and the run goes on as one without progress: no file is
\* found recorded, none is skipped and none deleted, every file the loop is
\* done with got a pull attempt, and so did every enumerated file once the
\* loop has run to its end; the only records are those of this run; and the
\* run reaches the summary.
C5_State ==
    LoadedNothing =>
        /\ hist.loadedMap = EmptyMap
        /\ hist.hadRecord = {}
        /\ hist.skipped = {}
        /\ hist.removed = {}
        /\ Handled \subseteq hist.attempted
        /\ hist.ended = "complete" => hist.attempted = Files
        /\ pc \in {"loop", "decide", "pull", "failed"} =>
              DOMAIN progress = hist.recorded
        /\ pc # "exit"

\* C5, with the summary reached.
C5_MalformedTolerated ==
    /\ []C5_State
    /\ (LoadedNothing /\ pc = "loop") ~> (pc = "summary")

\* A run that found a malformed snapshot has pulled all of two or more files,
\* one of them over a local copy left by the run before.
C5_Witness ==
    /\ hist.loaded = "malformed" /\ pc = "done" /\ hist.ended = "complete"
    /\ Len(android_files) >= 2
    /\ hist.attempted = Files
    /\ hist.existed # {}

\* ----------------------------------------------------------------------- C6
\* C6: a call of file_needs_backup returns false (the file is skipped) exactly
\* when the path has a record, the local file exists, the size query answers
\* and the answer equals the local size; it returns true in every other case.
\* When it returns false the local file system and the progress mapping are
\* as before the call.
C6_Decision ==
    [][(pc = "decide" /\ pc' \in {"loop", "pull"}) =>
          LET trusted == /\ cur \in DOMAIN progress
                         /\ localfs[curLocal].exists
                         /\ cur \notin hist'.statNone
                         /\ localfs[curLocal].size = remote[cur]
          IN  /\ (pc' = "loop") <=> trusted
              /\ (pc' = "pull") <=> ~trusted
              /\ pc' = "loop" => (localfs' = localfs /\ progress' = progress)
      ]_vars

\* Both results have occurred in one run: a recorded file was skipped, and
\* another recorded file, whose size query failed, was not.
C6_Witness ==
    /\ hist.skipped # {}
    /\ hist.statNone # {}
    /\ hist.removed # {}

\* ----------------------------------------------------------------------- C7
\* What a step of the loop may do to the progress mapping: nothing, or, right
\* after a successful pull, set the record of the pulled path.
ProgressStep ==
    progress' # progress =>
        /\ pc = "record"
        /\ cur \in hist.succeeded
        /\ DOMAIN progress' = (DOMAIN progress) \cup {cur}
        /\ \A q \in (DOMAIN progress) \ {cur} : progress'[q] = progress[q]
        /\ progress'[cur].completed = TRUE
        /\ progress'[cur].timestamp = run
        /\ progress'[cur].local_path = curLocal

\* C7 as stated: in the loop the progress mapping changes only in the step
\* after a successful pull, which sets the record of the pulled path; the
\* snapshot changes only in the save of that step; and the whole snapshot has
\* been rewritten when the loop goes on to count the file.
C7_AsStated ==
    [][InLoop =>
          /\ ProgressStep
          /\ disk' # disk => (pc \in {"save", "dump"} /\ cur \in hist.recorded)
          /\ pc' = "count" => disk' = Snapshot(progress')
      ]_vars

\* C7, amended: the snapshot has been rewritten when the loop goes on unless
\* the save failed (then it is as before, or truncated when the write failed
\* after the file was opened); and an interrupt that arrives while the
\* snapshot is being written leaves it truncated.  Everything else is as
\* stated: a failed pull, a skip and a connection abort change no record.
C7_ProgressOnSuccess ==
    [][InLoop =>
          /\ ProgressStep
          /\ disk' # disk =>
                /\ pc \in {"save", "dump"}
                /\ cur \in hist.recorded
                /\ disk' \in {Malformed, Snapshot(progress)}
          /\ (pc' = "count" /\ cur \notin hist'.saveFailed) =>
                disk' = Snapshot(progress')
          /\ (pc' = "count" /\ cur \in hist'.saveFailed) =>
                disk' \in {disk, Malformed}
          /\ pc \in {"loop", "decide", "pull", "failed", "count"} =>
                (progress' = progress /\ disk' = disk)
      ]_vars

\* A pull failed in the run before and left no record; in this run a file was
\* skipped, the failed one was pulled, and the snapshot holds both records.
C7_Witness ==
    /\ pc = "count"
    /\ prev.failedPull # {}
    /\ hist.skipped # {}
    /\ cur \in hist.recorded
    /\ hist.saveFailed = {}
    /\ disk = Snapshot(progress)
    /\ Cardinality(DOMAIN progress) >= 2

\* ----------------------------------------------------------------------- C8
\* C8: pull_file returns success only if the adb pull subprocess returned 0
\* and the local file exists; so the local file of a path exists when its
\* record is set and saved.
C8_PullPostcondition ==
    /\ pc = "record" => (hist.lastRc = "zero" /\ cur \in hist.succeeded)
    /\ pc \in {"record", "save", "dump", "count"} => localfs[curLocal].exists
    /\ pc = "failed" => cur \in hist.failedPull
    /\ (pc \in {"record", "failed"} /\ hist.lastRc = "zero"
            /\ ~localfs[curLocal].exists) => pc = "failed"

\* An adb pull returned 0 without leaving a file, and pull_file reported the
\* failure; another pull of the run succeeded.
C8_Witness ==
    /\ pc = "failed" /\ hist.lastRc = "zero" /\ ~localfs[curLocal].exists
    /\ hist.recorded # {}

\* ----------------------------------------------------------------------- C9
\* What a run has done to files: decisions, deletions, pulls, records.
FileWork == <<hist.decided, hist.skipped, hist.removed, hist.attempted,
              hist.recorded>>

\* C9: before a file is handled the connection is checked exactly when the
\* number of files processed so far in the run is a positive multiple of 10,
\* so never before the first file; a failed check decides, deletes and pulls
\* nothing more, leaves the counters and the progress store as they are, and
\* takes the run to the summary.
C9_ConnectionRecheck ==
    [][/\ (pc = "loop" /\ pc' = "decide") =>
             ((processed_files \in hist'.checks)
                 <=> (processed_files > 0 /\ processed_files % 10 = 0))
       /\ (hist'.checks # hist.checks /\ run' = run) =>
             /\ pc = "loop" /\ idx <= Len(android_files)
             /\ processed_files > 0 /\ processed_files % 10 = 0
             /\ hist'.checks = hist.checks \cup {processed_files}
       /\ (hist'.ended = "connlost" /\ hist.ended # "connlost") =>
             /\ pc = "loop" /\ pc' = "summary"
             /\ processed_files \in hist'.checks
             /\ FileWork' = FileWork
             /\ UNCHANGED <<localfs, disk, progress, counters, idx>>
       /\ (hist.ended = "connlost" /\ run' = run) =>
             /\ pc' \in {"summary", "done"}
             /\ FileWork' = FileWork
             /\ UNCHANGED <<localfs, disk, progress, counters, idx>>
      ]_vars

\* The check after the tenth file failed: the run is over with ten files
\* processed and the eleventh untouched.
C9_Witness ==
    /\ pc = "done" /\ hist.ended = "connlost"
    /\ hist.checks = {10}
    /\ processed_files = 10
    /\ Cardinality(hist.decided) = 10
    /\ Len(android_files) > 10

\* ---------------------------------------------------------------------- C10
\* C10: a run that passed the start-up check and enumerated a file reaches the
\* summary, whatever the decisions and the pulls do, also when the connection
\* check fails or an interrupt arrives in the loop; after an interrupt no file
\* is decided or pulled any more, and nothing is written.
C10_ReachesSummary ==
    /\ (pc = "load") ~> (pc = "summary")
    /\ [][(hist.ended = "interrupt" /\ run' = run) =>
             /\ pc' \in {"summary", "done"}
             /\ FileWork' = FileWork
             /\ UNCHANGED <<localfs, disk, progress, counters, idx>>
         ]_vars

\* An interrupted run is at its summary, after a failed pull and a skip.
C10_Witness ==
    /\ pc = "summary" /\ hist.ended = "interrupt"
    /\ hist.failedPull # {}
    /\ hist.skipped # {}

\* ---------------------------------------------------------------------- C11
\* The step in which the KeyboardInterrupt arrives.
InterruptArrives == hist'.ended = "interrupt" /\ hist.ended # "interrupt"

\* C11 as stated: an interrupt takes effect only between two loop iterations,
\* never in a transfer: it changes no local file, and every path whose pull
\* succeeded has its record and is counted.
C11_AsStated ==
    [][InterruptArrives =>
          /\ pc = "loop"
          /\ localfs' = localfs
          /\ hist.succeeded \subseteq hist.recorded
          /\ successful_files = Cardinality(hist.succeeded)
      ]_vars

\* C11, amended: an interrupt takes effect at the statement that is being
\* executed, also in a transfer or a save.  It goes to the summary and sets no
\* record and no counter; the only local file it can change is the one of the
\* path being pulled (left as the killed transfer wrote it); in a save it
\* leaves the snapshot truncated; and every path the loop was done with is
\* counted once, with its record if its pull succeeded.  Only the path being handled can be left pulled without a
\* record or uncounted.
C11_InterruptGranularity ==
    [][InterruptArrives =>
          /\ InLoop /\ pc' = "summary"
          /\ UNCHANGED <<progress, counters, idx, remote>>
          /\ localfs' # localfs => pc = "pull"
          /\ pc = "pull" =>
                \A lp \in DOMAIN localfs :
                   lp # curLocal => localfs'[lp] = localfs[lp]
          /\ disk' = disk
          /\ pc = "dump" => disk = Malformed
          /\ processed_files = idx - 1
          /\ (hist.succeeded \cap Handled) \subseteq hist.recorded
          /\ successful_files = Cardinality(hist.succeeded \cap Handled)
          /\ pc = "loop" => hist.succeeded \subseteq hist.recorded
          /\ pc # "loop" => (hist.succeeded \ hist.recorded) \subseteq {cur}
      ]_vars

\* An interrupt arrived in the second file's pull and left a part of it; the
\* first file was pulled, recorded and counted.
C11_Witness ==
    /\ pc = "summary" /\ hist.ended = "interrupt"
    /\ idx = 2 /\ Len(android_files) >= 2
    /\ cur \in hist.attempted
    /\ cur \notin (hist.succeeded \cup hist.failedPull)
    /\ localfs[curLocal].exists
    /\ localfs[curLocal].size < remote[cur]
    /\ successful_files = 1

\* ---------------------------------------------------------------------- C12
\* The decision of the current path consulted its record and local file and
\* got no size from the device.
DecidedWithoutSize ==
    /\ pc = "decide"
    /\ hist'.decided # hist.decided
    /\ cur \in DOMAIN progress
    /\ localfs[curLocal].exists
    /\ cur \in hist'.statNone

\* C12 as stated: when the path has a record, its local file exists and the
\* size query yields no number, the decision returns needs-backup and the
\* local file does not exist on return.
C12_AsStated ==
    [][DecidedWithoutSize =>
          /\ pc' = "pull"
          /\ ~localfs'[curLocal].exists
      ]_vars

\* C12, amended: ... the decision returns needs-backup after trying to delete
\* the local file: the file does not exist on return unless os.remove raised,
\* and then it is as it was.  No other local file, no record and no counter
\* changes, and the pull of the path comes next.
C12_UnobtainableSize ==
    [][DecidedWithoutSize =>
          /\ pc' = "pull"
          /\ cur \notin hist'.skipped
          /\ IF cur \in hist'.removeFailed
             THEN localfs' = localfs
             ELSE localfs' = [localfs EXCEPT ![curLocal] = NoFile]
          /\ UNCHANGED <<progress, disk, counters, idx>>
      ]_vars

\* The size query failed for a mirrored file of the right size: the file is
\* gone and its pull comes next.
C12_Witness ==
    /\ pc = "pull"
    /\ cur \in hist.statNone
    /\ cur \in hist.removed
    /\ cur \in hist.hadRecord /\ cur \in hist.existed
    /\ cur \notin hist.mismatch
    /\ ~localfs[curLocal].exists

\* ---------------------------------------------------------------------- C13
\* Within a run pull_file is called at most once for a path: when the loop is
\* about to call it, the path has had no attempt in this run, and a pull that
\* returns is the path's attempt; a failed pull sets no record.
OneAttempt ==
    /\ pc = "pull" => cur \notin hist.attempted
    /\ pc \in {"record", "failed"} => cur \in hist.attempted
    /\ hist.failedPull \cap hist.recorded = {}
    /\ hist.attempted \cap hist.skipped = {}

\* C13 as stated: ... and a path whose pull failed in a run gets a pull
\* attempt in the next run when that run's loop reaches it.
C13_AsStated ==
    /\ OneAttempt
    /\ \A p \in prev.failedPull \cap Handled : p \in hist.attempted

\* C13, amended: ... gets a pull attempt in the next run when that run's loop
\* reaches it, unless the path has a record of an earlier run and its local
\* file exists with the size the device reports to that run: then it is
\* skipped.  A path without a record in the loaded snapshot is always pulled.
C13_RetryNextRun ==
    /\ OneAttempt
    /\ \A p \in prev.failedPull \cap Handled :
          \/ p \in hist.attempted
          \/ /\ p \in hist.skipped
             /\ p \in DOMAIN hist.loadedMap
             /\ p \in hist.existed
             /\ p \notin hist.mismatch
             /\ p \notin hist.statNone
    /\ \A p \in Handled : p \notin DOMAIN hist.loadedMap => p \in hist.attempted

\* The pull of a path failed in the run before; this run has pulled it.
C13_Witness ==
    /\ pc = "count"
    /\ cur \in prev.failedPull
    /\ cur \in hist.succeeded

\* ---------------------------------------------------------------------- C14
\* What a process started now would load (the read succeeding).
Reload == load_progress(disk, TRUE)
\* The path of the last record set in this run (the loop goes in order).
LastRecorded == CHOOSE p \in hist.recorded : \A q \in hist.recorded : q <= p
LastSaveSucceeded == hist.recorded # {} /\ LastRecorded \notin hist.saveFailed

\* C14 as stated: between two loop iterations, if no save has failed in this
\* run, what is persisted is the in-memory mapping; and after a failed save
\* the next successful save makes it so again.
C14_AsStated ==
    pc = "loop" =>
       /\ hist.saveFailed = {} => Reload = progress
       /\ LastSaveSucceeded => disk = Snapshot(progress)

\* C14, amended: the same, for a run whose load_progress did not fail to read
\* an existing well-formed snapshot; after such a failure the mapping in
\* memory starts empty while the snapshot keeps the earlier records, until the
\* first successful save of the run replaces them.
C14_DurableStore ==
    pc = "loop" =>
       /\ (hist.saveFailed = {} /\ hist.loaded # "unreadable") =>
             Reload = progress
       /\ LastSaveSucceeded => disk = Snapshot(progress)
       /\ (hist.recorded = {} /\ hist.loaded = "unreadable") =>
             (progress = EmptyMap /\ disk.kind = "ok")

\* The save of the first file's record failed, the save after the second
\* file's pull succeeded: the snapshot holds both records.
C14_Witness ==
    /\ pc = "loop"
    /\ hist.saveFailed # {}
    /\ LastSaveSucceeded
    /\ hist.saveFailed \subseteq DOMAIN disk.map
    /\ Cardinality(DOMAIN progress) >= 2
    /\ disk = Snapshot(progress)

\* ---------------------------------------------------------------------- C15
\* C15: between two loop iterations the three counters add up to the number
\* of files processed, which is at most the number enumerated, and they count
\* disjoint sets of paths (the pulled and recorded, the skipped, the failed);
\* when the loop has run over all files the sum is the total, successful is
\* the number of records set in the run and skipped the number of paths
\* without a pull attempt.
C15_CounterAccounting ==
    /\ pc = "loop" =>
          /\ successful_files + skipped_files + failed_files = processed_files
          /\ processed_files = idx - 1
          /\ processed_files <= Len(android_files)
          /\ successful_files = Cardinality(hist.recorded)
          /\ skipped_files = Cardinality(hist.skipped)
          /\ failed_files = Cardinality(hist.failedPull)
          /\ hist.recorded \cap hist.skipped = {}
          /\ hist.recorded \cap hist.failedPull = {}
          /\ hist.skipped \cap hist.failedPull = {}
          /\ hist.recorded \cup hist.skipped \cup hist.failedPull = Handled
    /\ hist.ended = "complete" =>
          /\ successful_files + skipped_files + failed_files
                = Len(android_files)
          /\ processed_files = Len(android_files)
          /\ successful_files = Cardinality(hist.recorded)
          /\ skipped_files = Cardinality(Files \ hist.attempted)

\* A run over two files is at its summary: it skipped one and its pull of the
\* other failed.
C15_Witness ==
    /\ pc = "summary" /\ hist.ended = "complete"
    /\ Len(android_files) = 2
    /\ skipped_files = 1
    /\ failed_files = 1
    /\ successful_files = 0

\* ---------------------------------------------------------------------- C16
FatalStart == {"nodevice", "nofiles"}
NoFileWork == <<{}, {}, {}, {}, {}>>

\* C16: when the start-up connection check fails or the listing yields no
\* file, the run ends there: it has made no decision, no pull attempt, no
\* deletion and no record, and from its start it has changed no local file
\* and neither the mapping nor the snapshot.
C16_FatalStart ==
    [][/\ pc \in {"start", "list"} =>
             /\ UNCHANGED <<localfs, disk, progress, counters>>
             /\ FileWork' = FileWork
             /\ FileWork = NoFileWork
       /\ hist'.ended \in FatalStart =>
             /\ pc' = "exit"
             /\ pc \in {"start", "list", "exit"}
             /\ android_files' = <<>>
             /\ FileWork' = NoFileWork
             /\ UNCHANGED <<localfs, disk, progress, counters>>
      ]_vars

\* A second run found no file on a device whose files the first run had
\* mirrored: mirror and snapshot are as the first run left them.
C16_Witness ==
    /\ pc = "exit" /\ hist.ended = "nofiles"
    /\ run = 2
    /\ disk.kind = "ok" /\ DOMAIN disk.map # {}
    /\ \E lp \in DOMAIN localfs : localfs[lp].exists

\* ---------------------------------------------------------------------- C17
\* The local paths whose file a step deletes, and those it changes at all.
Deleted == {lp \in DOMAIN localfs : localfs[lp].exists /\ ~localfs'[lp].exists}
Touched == {lp \in DOMAIN localfs : localfs'[lp] # localfs[lp]}

\* C17: in a run a local file is deleted only by the decision of its path,
\* when the path has a record and the size comparison did not yield equality
\* (the sizes differ or the device gave none), or by a pull of its path that
\* timed out; only the decision and the pull change a local file at all, and
\* only the one of the path being handled; the file of a skipped path stays as
\* it is.
C17_DeletionConfined ==
    [][/\ Touched # {} =>
             /\ pc \in {"decide", "pull"}
             /\ Touched = {curLocal}
             /\ cur \notin hist'.skipped
             /\ pc = "decide" => Deleted = {curLocal}
       /\ Deleted # {} =>
             \/ /\ pc = "decide"
                /\ cur \in DOMAIN progress
                /\ cur \in hist'.removed
                /\ cur \in (hist'.mismatch \cup hist'.statNone)
             \/ /\ pc = "pull"
                /\ cur \in hist'.timedOut
                /\ pc' = "failed"
       /\ \A p \in hist.skipped :
             run' = run => localfs'[LocalPathOf(p)] = localfs[LocalPathOf(p)]
      ]_vars

\* The run skipped the first file; its pull of the second, whose local file an
\* interrupted run had left without a record, timed out and deleted the file.
\* The first file is still there.
C17_Witness ==
    /\ pc = "failed" /\ idx = 2
    /\ cur \in hist.timedOut
    /\ cur \in hist.existed /\ cur \notin hist.hadRecord
    /\ ~localfs[curLocal].exists
    /\ hist.skipped = {1}
    /\ localfs[LocalPathOf(1)].exists

====
